---- MODULE Spec2Model ----
(***************************************************************************)
(* Photo-sharing feed service (app.py, migrate_images.py).                 *)
(*                                                                         *)
(* The model has seven specifications over one set of variables:           *)
(*   SpecAgg      make_posts as a function of its input rows and the store; *)
(*   SpecFeed     the feed, profile, comment, ban and new-post handlers     *)
(*                with memcached;                                           *)
(*   SpecForeign  the same handlers on a memcached that holds values of     *)
(*                another client under the keys of the feed;                *)
(*   SpecPages    / and /posts on stores longer than the LIMIT of /posts;   *)
(*   SpecCursor   /posts with every kind of max_created_at;                 *)
(*   SpecImg      get_image (lazy migration) beside the batch migration     *)
(*                pass of migrate_images.py;                                *)
(*   SpecUpload   new-post submissions beside image requests.               *)
(***************************************************************************)
EXTENDS Integers, Sequences, FiniteSets, TLC

VARIABLES
    users,      \* users table: id -> [id, account_name, authority, del_flg]
    posts,      \* posts table: sequence of rows in id order
    comments,   \* comments table: sequence of rows, comments[i].id = i
    post_seq,   \* AUTO_INCREMENT of posts: the last id handed out
    now,        \* the store's clock (CURRENT_TIMESTAMP) at the last INSERT
    files,      \* Blob Store: filename -> content of public/images/<filename>
    mc,         \* memcached: key -> entry
    pc,         \* per worker: the step its request is at
    loc,        \* per worker: the local variables of its request
    last,       \* the response sent by the last step, if it sent one
    stale,      \* per worker: keys whose value predates the worker's INSERT
    reqs,       \* the number of requests started
    agg,        \* one call of make_posts: its arguments and its return value
    mig,        \* the run of migrate_images.py: its position and its locals
    io_failed,  \* whether an operation on a file or an UPDATE of imgdata has raised
    first,      \* post id -> the body sent by the request that migrated it
    invalidated \* ids of the comments whose submission has ended in its redirect

vars == <<users, posts, comments, post_seq, now, files, mc, pc, loc, last,
          stale, reqs, agg, mig, io_failed, first, invalidated>>

imgVars == <<mig, io_failed, first>>

storeVars == <<users, posts, comments, post_seq, now>>

(***************************************************************************)
(* Program constants                                                       *)
(***************************************************************************)
POSTS_PER_PAGE == 20

\* limit_condition of make_posts in feed mode
FEED_COMMENT_LIMIT == 3

\* limit_condition of make_posts in all-comments mode
ALL_COMMENT_LIMIT == 999999

(***************************************************************************)
(* Bounds of the model                                                     *)
(***************************************************************************)
\* posts in the store of SpecAgg
MaxAggPosts == 22

\* comments in the store of SpecAgg
MaxAggComments == 4

\* concurrent requests (worker processes)
NumWorkers == 2

\* posts in the store of SpecFeed
MaxFeedPosts == 2

\* comments in the store of SpecFeed
MaxFeedComments == 1

\* the last tick of the store's clock
MaxTime == 1

\* requests started in one behaviour of SpecFeed
MaxRequests == 3

\* posts in the store of SpecImg
MaxImgPosts == 2

\* posts in the store of SpecPages
MaxPagePosts == 32

(***************************************************************************)
(* Helpers                                                                 *)
(***************************************************************************)
Min(a, b) == IF a <= b THEN a ELSE b

Range(s) == {s[i] : i \in DOMAIN s}

\* The permutations of 1..n, as sequences.
Perms(n) == {s \in [1..n -> 1..n] : \A i, j \in 1..n : i # j => s[i] # s[j]}

\* The position of x in the sequence s (x occurs once).
PosIn(s, x) == CHOOSE i \in DOMAIN s : s[i] = x

\* The subsequence of s whose elements are in the set S.
RECURSIVE Filter(_, _)
Filter(s, S) ==
    IF s = <<>> THEN <<>>
    ELSE IF Head(s) \in S THEN <<Head(s)>> \o Filter(Tail(s), S)
    ELSE Filter(Tail(s), S)

(***************************************************************************)
(* The relational store                                                    *)
(***************************************************************************)
UserIds == {1, 2}

\* A user id with no row in users (the schema declares no foreign key).
NoUser == Cardinality(UserIds) + 1

AccountName(u) == "u" \o ToString(u)

UserRow(u, flg) ==
    [id |-> u, account_name |-> AccountName(u),
     authority |-> IF u = 1 THEN 1 ELSE 0, del_flg |-> flg]

PostIdsOf(results) == {results[i].id : i \in DOMAIN results}

CommentIdsOfPost(p) == {c \in DOMAIN comments : comments[c].post_id = p}

\* ORDER BY created_at DESC over the comments table leaves the order of rows
\* with equal created_at open: every order the server may produce.
CommentDescOrders ==
    {s \in Perms(Len(comments)) :
        \A i, j \in DOMAIN s :
            i < j => comments[s[i]].created_at >= comments[s[j]].created_at}

\* ORDER BY created_at ASC, likewise.
CommentAscOrders ==
    {s \in Perms(Len(comments)) :
        \A i, j \in DOMAIN s :
            i < j => comments[s[i]].created_at <= comments[s[j]].created_at}

(***************************************************************************)
(* make_posts                                                              *)
(***************************************************************************)
\* Query 1: the users that own a stored post whose id is among post_ids.
users_data(post_ids) ==
    LET owners == {posts[i].user_id : i \in {k \in DOMAIN posts : posts[k].id \in post_ids}}
    IN  [u \in owners \cap DOMAIN users |-> users[u]]

\* A count taken over the rows of the limited comment query instead.
comment_counts_limited(post_ids) ==
    [p \in {q \in post_ids : CommentIdsOfPost(q) # {}} |->
        Min(FEED_COMMENT_LIMIT, Cardinality(CommentIdsOfPost(p)))]

\* Query 2: COUNT(*) ... GROUP BY post_id; a post without comments has no row.
comment_counts(post_ids) ==
    [p \in {q \in post_ids : CommentIdsOfPost(q) # {}} |-> Cardinality(CommentIdsOfPost(p))]

\* The feed limit applied in both modes.
limit_condition_feed_only(all_comments) == FEED_COMMENT_LIMIT

limit_condition(all_comments) ==
    IF all_comments THEN ALL_COMMENT_LIMIT ELSE FEED_COMMENT_LIMIT

\* ROW_NUMBER() OVER (PARTITION BY post_id ORDER BY created_at DESC), the
\* window order being rk restricted to the partition.
RowNumber(c, rk) ==
    Cardinality({d \in CommentIdsOfPost(comments[c].post_id) : PosIn(rk, d) <= PosIn(rk, c)})

\* Query 3: the rows with rn <= limit that join a users row.
RankedRows(post_ids, limit, rk) ==
    {c \in DOMAIN comments :
        /\ comments[c].post_id \in post_ids
        /\ RowNumber(c, rk) <= limit
        /\ comments[c].user_id \in DOMAIN users}

\* The comment object built from a row of query 3.
CommentView(c) ==
    [id |-> comments[c].id, post_id |-> comments[c].post_id,
     user_id |-> comments[c].user_id, created_at |-> comments[c].created_at,
     user |-> users[comments[c].user_id]]

\* comments_by_post: the rows of query 3 in its ORDER BY post_id, created_at
\* ASC (od), grouped by post_id.
comments_by_post(post_ids, limit, rk, od) ==
    LET rows == RankedRows(post_ids, limit, rk)
    IN  [p \in {comments[c].post_id : c \in rows} |->
            LET ids == Filter(od, {c \in rows : comments[c].post_id = p})
            IN  [i \in DOMAIN ids |-> CommentView(ids[i])]]

\* A filter that looks the author up and forgets del_flg.
keep_post_any_author(ud, row) == row.user_id \in DOMAIN ud

\* "if post["user"] and not post["user"]["del_flg"]"
keep_post(ud, row) == row.user_id \in DOMAIN ud /\ ~ud[row.user_id].del_flg

\* The loop over results: attach count, comments and author, keep the posts
\* whose author was found and is not soft-deleted, stop at POSTS_PER_PAGE.
RECURSIVE BuildPosts(_, _, _, _, _)
BuildPosts(results, ud, cc, cbp, acc) ==
    IF results = <<>> THEN acc
    ELSE
        LET row == Head(results)
            found == row.user_id \in DOMAIN ud
            post == [id |-> row.id, user_id |-> row.user_id,
                     created_at |-> row.created_at, mime |-> row.mime,
                     comment_count |-> IF row.id \in DOMAIN cc THEN cc[row.id] ELSE 0,
                     comments |-> IF row.id \in DOMAIN cbp THEN cbp[row.id] ELSE <<>>,
                     user |-> IF found THEN ud[row.user_id] ELSE UserRow(0, FALSE)]
        IN  IF keep_post(ud, row)
            THEN IF Len(acc) + 1 >= POSTS_PER_PAGE
                 THEN Append(acc, post)
                 ELSE BuildPosts(Tail(results), ud, cc, cbp, Append(acc, post))
            ELSE BuildPosts(Tail(results), ud, cc, cbp, acc)

\* make_posts(results, all_comments); rk and od are the orders the server
\* gave rows of equal created_at in the window and in the final ORDER BY.
make_posts(results, all_comments, rk, od) ==
    IF results = <<>> THEN <<>>
    ELSE
        LET post_ids == PostIdsOf(results)
        IN  BuildPosts(results,
                       users_data(post_ids),
                       comment_counts(post_ids),
                       comments_by_post(post_ids, limit_condition(all_comments), rk, od),
                       <<>>)

\* A query per input post for the authors and the comments.
make_posts_queries_per_post(results) ==
    [i \in 1..(2 * Len(results)) |-> "SELECT"]

\* The statements make_posts sends to the store, in order: none for an empty
\* input, else the three batch queries, whatever the number of input posts.
make_posts_queries(results) ==
    IF results = <<>> THEN <<>>
    ELSE <<"SELECT", "SELECT", "SELECT">>

(***************************************************************************)
(* Image names and imgdata values                                          *)
(***************************************************************************)
get_image_extension(mime_type) ==
    CASE mime_type = "image/jpeg" -> ".jpg"
      [] mime_type = "image/png" -> ".png"
      [] mime_type = "image/gif" -> ".gif"
      [] OTHER -> ""

generate_image_filename(post_id, mime_type) ==
    ToString(post_id) \o get_image_extension(mime_type)

\* An imgdata value that is the text s.
StrData(s) == [isStr |-> TRUE, len |-> Len(s), data |-> s]

NoImgdata == StrData("")

\* The image bytes of post post_id, as uploaded.
Original(post_id) == "img" \o ToString(post_id)

\* Bytes: the text they encode and the codec, "raw" for bytes never decoded.
Raw(text) == [text |-> text, enc |-> "raw"]

\* A file of the Blob Store, or a response body: the bytes, and how much of
\* them is there ("none" after the truncating open, "part", "all").
File(bytes, written) == [text |-> bytes.text, enc |-> bytes.enc, written |-> written]

NoFile == [text |-> "", enc |-> "", written |-> "absent"]

(***************************************************************************)
(* memcached and the cache helpers                                         *)
(***************************************************************************)
Workers == 1..NumWorkers

NoCursor == [present |-> FALSE, text |-> ""]

TimeCursor(t) == [present |-> TRUE, text |-> ToString(t)]
TextCursor(text) == [present |-> TRUE, text |-> text]

\* Python truthiness of request.args.get("max_created_at")
Truthy(cursor) == cursor.present /\ cursor.text # ""

KeyTop == "tl:top"

KeyBefore(cursor) == "tl:before:" \o (IF Truthy(cursor) THEN cursor.text ELSE "top")

KeyUser(account_name) == "user:" \o account_name \o ":page0"

KeyPost(post_id) == "post:" \o ToString(post_id)

NoUserView == [id |-> 0, account_name |-> ""]

NoStats == [post_cnt |-> 0, comment_cnt |-> 0, commented_cnt |-> 0]

\* What get_user_list stores: the tuple (user, posts, stats).
Payload(page, user, stats) ==
    [posts |-> page, user |-> user, stats |-> stats, shape |-> "triple"]

\* What get_index and get_posts store: a list of posts.
PagePayload(page) ==
    [posts |-> page, user |-> NoUserView, stats |-> NoStats, shape |-> "page"]

NoPayload == PagePayload(<<>>)

\* A non-empty value that is neither a list of posts nor such a tuple.
Malformed == [NoPayload EXCEPT !.shape = "other"]

\* A cache_get whose failure hands back what the key held when last reached.
cache_get_ignoring_failure(key, up) ==
    IF key \in DOMAIN mc
    THEN [hit |-> TRUE, value |-> mc[key]]
    ELSE [hit |-> FALSE, value |-> NoPayload]

\* cache_get: the value, or None on a miss and on any exception; up tells
\* whether memcached answered.
cache_get(key, up) ==
    IF up /\ key \in DOMAIN mc
    THEN [hit |-> TRUE, value |-> mc[key]]
    ELSE [hit |-> FALSE, value |-> NoPayload]

\* memcached after set(key, value).
McSet(key, value) == [k \in DOMAIN mc \cup {key} |-> IF k = key THEN value ELSE mc[k]]

\* A delete that leaves the key in place.
McDeleteNothing(key) == mc

\* memcached after delete(key).
McDelete(key) == [k \in DOMAIN mc \ {key} |-> mc[k]]

\* cache_set: memcached afterwards; an exception is swallowed.
cache_set(key, value, up) == IF up THEN McSet(key, value) ELSE mc

(***************************************************************************)
(* Requests                                                                *)
(***************************************************************************)
LocIdle ==
    [handler |-> "", key |-> "", value |-> NoPayload, get_failed |-> FALSE,
     fresh |-> FALSE, cursor |-> NoCursor, account_name |-> "", me |-> 0,
     post_id |-> 0, comment_id |-> 0, held |-> {}, owner |-> "", uids |-> <<>>,
     pid |-> 0, id |-> 0, ext |-> "", imgdata |-> NoImgdata, file_before |-> NoFile,
     updated |-> FALSE, after_migration |-> FALSE,
     mime |-> "", filename |-> "", upload |-> ""]

NoResponse ==
    [handler |-> "", worker |-> 0, status |-> 0, payload |-> NoPayload,
     cursor |-> NoCursor, account_name |-> "", post_id |-> 0, owner |-> "",
     hit |-> FALSE, cache_failed |-> FALSE, cache_error |-> FALSE,
     fresh |-> FALSE, held |-> {}, stale_keys |-> {}, id |-> 0, ext |-> "",
     body |-> NoFile, branch |-> "", failed_at |-> "", imgdata |-> NoImgdata,
     file_before |-> NoFile, updated |-> FALSE, after_migration |-> FALSE]

\* The authors of a page's posts that are soft-deleted now.
DeletedAuthors(page) ==
    {page[i].user_id : i \in {k \in DOMAIN page :
        page[k].user_id \in DOMAIN users /\ users[page[k].user_id].del_flg}}

\* The response of request l at worker w with a page of posts, rendered now.
PageResponse(w, l, payload, hit, cache_failed) ==
    [NoResponse EXCEPT !.handler = l.handler, !.worker = w, !.status = 200,
                       !.payload = payload, !.hit = hit,
                       !.cache_failed = cache_failed, !.fresh = l.fresh,
                       !.cursor = l.cursor, !.account_name = l.account_name]

\* A response without a page: a redirect, 403, 404, 422 or 500.
PlainResponse(w, handler, status) ==
    [NoResponse EXCEPT !.handler = handler, !.worker = w, !.status = status]

\* The store changed: what a request computed before is no longer current.
Outdated(l) == [w \in Workers |-> [l[w] EXCEPT !.fresh = FALSE]]

AggIdle ==
    [results |-> <<>>, all_comments |-> FALSE, called |-> FALSE, out |-> <<>>,
     queries |-> <<>>]

\* A file of the Blob Store holding all of bytes.
WholeFile(bytes) == File(bytes, "all")

\* The content of public/images/<name>, NoFile when there is no such file.
FileAt(name) == IF name \in DOMAIN files THEN files[name] ELSE NoFile

MigIdle ==
    [pc |-> "idle", todo |-> <<>>, post_id |-> 0, mime |-> "", imgdata |-> NoImgdata,
     filename |-> "", migrated |-> 0, errors |-> 0]

\* The Blob Store after name was written with content.
FilesWith(name, content) ==
    [n \in DOMAIN files \cup {name} |-> IF n = name THEN content ELSE files[n]]

\* No request is running and the script has not started.
InitWorkers ==
    /\ pc = [w \in Workers |-> "idle"]
    /\ loc = [w \in Workers |-> LocIdle]
    /\ last = NoResponse
    /\ stale = [w \in Workers |-> {}]
    /\ reqs = 0
    /\ mig = MigIdle
    /\ io_failed = FALSE
    /\ first = <<>>
    /\ invalidated = {}

InitIdle ==
    /\ mc = <<>>
    /\ InitWorkers

(***************************************************************************)
(* SpecAgg: make_posts over bounded stores and inputs                      *)
(***************************************************************************)
PostRow(i, owner, at, mime, imgdata) ==
    [id |-> i, user_id |-> owner, created_at |-> at, mime |-> mime,
     imgdata |-> imgdata]

CommentRow(i, p, u, at) ==
    [id |-> i, post_id |-> p, user_id |-> u, created_at |-> at]

\* The rows in the caller's order, newest first.
Reverse(s) == [i \in DOMAIN s |-> s[Len(s) + 1 - i]]

\* The store sizes SpecAgg draws: around empty and around the page limit.
AggSizes == (0..2) \cup {n \in 0..MaxAggPosts : n >= MaxAggPosts - 2}

InitAgg ==
    /\ InitIdle
    /\ users \in {[u \in UserIds |-> UserRow(u, f[u])] : f \in [UserIds -> BOOLEAN]}
    /\ \E n \in AggSizes, own \in [0..1 -> UserIds \cup {NoUser}] :
          /\ posts = [i \in 1..n |->
                        PostRow(i, IF i >= n - 1 THEN own[n - i] ELSE 1, i, "image/png",
                                StrData(generate_image_filename(i, "image/png")))]
          /\ post_seq = n
          /\ now = n
    /\ files = <<>>
    /\ \E m \in 0..MaxAggComments, tie \in BOOLEAN, spread \in BOOLEAN :
          comments = [j \in 1..m |->
                        CommentRow(j,
                                   IF spread THEN 1 + (j % 2) ELSE 1,
                                   1 + (j % 2),
                                   IF tie THEN (j + 1) \div 2 ELSE j)]
    /\ \E all \in BOOLEAN :
          agg = [AggIdle EXCEPT !.results = Reverse(posts), !.all_comments = all]

CallMakePosts ==
    /\ ~agg.called
    /\ \E rk \in CommentDescOrders, od \in CommentAscOrders :
          agg' = [agg EXCEPT !.called = TRUE,
                             !.out = make_posts(agg.results, agg.all_comments, rk, od),
                             !.queries = make_posts_queries(agg.results)]
    /\ UNCHANGED <<storeVars, files, mc, pc, loc, last, stale, reqs, imgVars, invalidated>>

NextAgg == CallMakePosts

SpecAgg == InitAgg /\ [][NextAgg]_vars

(***************************************************************************)
(* Claims about make_posts                                                 *)
(***************************************************************************)
\* The indices of the input rows whose author has a users row with del_flg
\* clear.
LiveInput(results) ==
    {i \in DOMAIN results :
        /\ results[i].user_id \in DOMAIN users
        /\ ~users[results[i].user_id].del_flg}

\* The j-th smallest element of the set of indices E.
Nth(E, j) == CHOOSE i \in E : Cardinality({e \in E : e <= i}) = j

\* C8: for a non-empty input, make_posts returns exactly the first
\* min(20, k) input posts whose author exists and is not soft-deleted, in the
\* order of the input, k being the number of such input posts.
C8_FirstLivePosts ==
    (agg.called /\ agg.results # <<>>) =>
        LET E == LiveInput(agg.results)
            n == Min(POSTS_PER_PAGE, Cardinality(E))
        IN  /\ Len(agg.out) = n
            /\ \A j \in 1..n : agg.out[j].id = agg.results[Nth(E, j)].id

\* C8 witness: an input of more than 20 live posts, with a dropped post ahead
\* of them, was cut to 20.
C8_Witness ==
    /\ agg.called
    /\ Cardinality(LiveInput(agg.results)) > POSTS_PER_PAGE
    /\ 1 \notin LiveInput(agg.results)
    /\ Len(agg.out) = POSTS_PER_PAGE

\* C9: every returned post carries as comment_count the number of comment
\* rows the store holds for it, whatever the length of its comments list.
C9_CommentCountIsTotal ==
    agg.called =>
        \A j \in DOMAIN agg.out :
            agg.out[j].comment_count =
                Cardinality({c \in DOMAIN comments : comments[c].post_id = agg.out[j].id})

\* C9 witness: a returned post with more comments than its truncated list.
C9_Witness ==
    /\ agg.called
    /\ \E j \in DOMAIN agg.out :
          /\ Len(agg.out[j].comments) = FEED_COMMENT_LIMIT
          /\ agg.out[j].comment_count > FEED_COMMENT_LIMIT

\* The comment ids attached to a returned post.
AttachedIds(post) == {post.comments[i].id : i \in DOMAIN post.comments}

\* C10: the comments attached to a returned post are, in feed mode, min(3, n)
\* of its n comments, none older than a comment left out, and in all-comments
\* mode all n; the list is ascending by created_at and names no comment twice.
C10_RecentCommentsAscending ==
    agg.called =>
        \A j \in DOMAIN agg.out :
            LET post == agg.out[j]
                all == CommentIdsOfPost(post.id)
                got == AttachedIds(post)
                want == IF agg.all_comments THEN Cardinality(all)
                        ELSE Min(3, Cardinality(all))
            IN  /\ got \subseteq all
                /\ Len(post.comments) = want
                /\ Cardinality(got) = want
                /\ \A c \in got, d \in all \ got :
                      comments[c].created_at >= comments[d].created_at
                /\ \A a, b \in DOMAIN post.comments :
                      a < b => post.comments[a].created_at <= post.comments[b].created_at

\* C10 witness: feed mode left out the oldest comment of a post with more
\* than three.
C10_Witness ==
    /\ agg.called
    /\ ~agg.all_comments
    /\ \E j \in DOMAIN agg.out :
          /\ Cardinality(CommentIdsOfPost(agg.out[j].id)) > 3
          /\ Len(agg.out[j].comments) = 3
          /\ 1 \notin AttachedIds(agg.out[j])

\* C11: no comment attached to a returned post was written by a user whose
\* del_flg is set.
C11_NoDeletedCommenter ==
    agg.called =>
        \A j \in DOMAIN agg.out :
            \A i \in DOMAIN agg.out[j].comments :
                ~users[agg.out[j].comments[i].user_id].del_flg

\* The sets of comment ids the call can attach to the returned posts, per
\* order rk the server gives rows of equal created_at in the window.
AttachedUnder(rk) ==
    LET out == make_posts(agg.results, agg.all_comments, rk, Reverse(rk))
    IN  [j \in DOMAIN out |-> AttachedIds(out[j])]

\* C17: the set of comments attached to each returned post is determined by
\* the store: whatever order the server ranks comments of equal created_at
\* in, the call attaches the same comments.
C17_AttachedSetDetermined ==
    agg.called =>
        \A rk \in CommentDescOrders :
            AttachedUnder(rk) = [j \in DOMAIN agg.out |-> AttachedIds(agg.out[j])]

\* C20: a call of make_posts sends no statement for an empty input and
\* exactly three SELECTs for any other input, and leaves every table as it
\* was.
C20_ThreeQueriesNoWrite ==
    [][(~agg.called /\ agg'.called) =>
          /\ Len(agg'.queries) = (IF agg.results = <<>> THEN 0 ELSE 3)
          /\ \A i \in DOMAIN agg'.queries : agg'.queries[i] = "SELECT"
          /\ storeVars' = storeVars]_vars

\* C20 witness: a call on more input posts than a page holds has sent three
\* queries.
C20_Witness ==
    /\ agg.called
    /\ Len(agg.results) > POSTS_PER_PAGE
    /\ Len(agg.queries) = 3

(***************************************************************************)
(* Queries of the feed handlers                                            *)
(***************************************************************************)
\* The rows of posts newest first, when no two share created_at.
NewestFirst ==
    [i \in DOMAIN posts |->
        CHOOSE k \in DOMAIN posts :
            Cardinality({j \in DOMAIN posts :
                            posts[j].created_at > posts[k].created_at}) = i - 1]

\* ORDER BY created_at DESC over posts: every order the server may produce;
\* the one order there is when the created_at are distinct.
PostDescOrders ==
    IF \A i, j \in DOMAIN posts : i # j => posts[i].created_at # posts[j].created_at
    THEN {NewestFirst}
    ELSE {s \in Perms(Len(posts)) :
             \A i, j \in DOMAIN s :
                 i < j => posts[s[i]].created_at >= posts[s[j]].created_at}

\* The rows of posts at the indices S, in the order ord.
SelectPosts(ord, S) ==
    LET idx == Filter(ord, S) IN [i \in DOMAIN idx |-> posts[idx[i]]]

\* LIMIT n
Take(s, n) == SubSeq(s, 1, Min(n, Len(s)))

\* The timestamp a cursor text denotes.
ParseTime(text) == CHOOSE t \in 0..(MaxTime + 1) : ToString(t) = text

\* get_index: SELECT ... FROM posts ORDER BY created_at DESC
IndexRows(ord) == SelectPosts(ord, DOMAIN posts)

\* get_posts: the query with the cursor, or the one without.
PostsRows(cursor, ord) ==
    IF Truthy(cursor)
    THEN Take(SelectPosts(ord, {i \in DOMAIN posts :
                                  posts[i].created_at < ParseTime(cursor.text)}), 30)
    ELSE Take(SelectPosts(ord, DOMAIN posts), 30)

\* get_user_list: the posts of uid, newest first, LIMIT 30.
UserRows(uid, ord) ==
    Take(SelectPosts(ord, {i \in DOMAIN posts : posts[i].user_id = uid}), 30)

\* get_user_list: the user row of account_name with del_flg = 0, if any.
LiveUsersNamed(account_name) ==
    {u \in DOMAIN users : users[u].account_name = account_name /\ ~users[u].del_flg}

\* get_user_list: post_cnt, comment_cnt, commented_cnt of uid.
UserStats(uid) ==
    [post_cnt |-> Cardinality({i \in DOMAIN posts : posts[i].user_id = uid}),
     comment_cnt |-> Cardinality({c \in DOMAIN comments : comments[c].user_id = uid}),
     commented_cnt |->
        Cardinality({c \in DOMAIN comments :
            \E i \in DOMAIN posts :
                posts[i].id = comments[c].post_id /\ posts[i].user_id = uid})]

UserView(u) == [id |-> users[u].id, account_name |-> users[u].account_name]

\* The pages get_index may compute from the store as it is.
IndexPages ==
    {make_posts(IndexRows(ord), FALSE, rk, od) :
        ord \in PostDescOrders, rk \in CommentDescOrders, od \in CommentAscOrders}

\* Whether the text of a cursor is a timestamp.
IsTime(text) == \E t \in 0..(MaxTime + 1) : ToString(t) = text

\* The statement get_posts executes and its arguments.
get_posts_query(cursor) ==
    IF Truthy(cursor)
    THEN [sql |-> "FROM posts WHERE created_at < %s ORDER BY created_at DESC LIMIT 30",
          args |-> <<cursor.text>>]
    ELSE [sql |-> "FROM posts ORDER BY created_at DESC LIMIT 30", args |-> <<>>]

\* "created_at < %s" with a text that is no timestamp: neither the server nor
\* its SQL mode is fixed by the handler, so the comparison holds of no row or
\* of every row, or the server rejects the statement.
OddRows(ord) == {<<>>, Take(SelectPosts(ord, DOMAIN posts), 30)}

Rejects(cursor) == Truthy(cursor) /\ ~IsTime(cursor.text)

\* The pages get_posts may compute from the store as it is.
PostsPages(cursor) ==
    IF Rejects(cursor)
    THEN UNION {{make_posts(rows, FALSE, rk, od) :
                    rows \in OddRows(ord), rk \in CommentDescOrders,
                    od \in CommentAscOrders} : ord \in PostDescOrders}
    ELSE {make_posts(PostsRows(cursor, ord), FALSE, rk, od) :
            ord \in PostDescOrders, rk \in CommentDescOrders, od \in CommentAscOrders}

\* What the query and make_posts of get_posts end in: a page, or the
\* exception of a rejected statement.
PostsOutcomes(cursor) ==
    {[ok |-> TRUE, page |-> page] : page \in PostsPages(cursor)}
        \cup (IF Rejects(cursor) THEN {[ok |-> FALSE, page |-> <<>>]} ELSE {})

\* The pages get_user_list may compute for uid from the store as it is.
UserPages(uid) ==
    {make_posts(UserRows(uid, ord), FALSE, rk, od) :
        ord \in PostDescOrders, rk \in CommentDescOrders, od \in CommentAscOrders}

(***************************************************************************)
(* The handlers                                                            *)
(***************************************************************************)
\* CURRENT_TIMESTAMP at an INSERT: the clock has not gone back since the
\* last one.
ClockReadings == now..MaxTime

\* Worker w takes a new request.
Begin(w) ==
    /\ pc[w] = "idle"
    /\ reqs < MaxRequests
    /\ reqs' = reqs + 1

Request(handler) == [LocIdle EXCEPT !.handler = handler]

\* The read handlers after a miss: the page is computed, cache_set is next.
Computed(w, l, key, payload, up) ==
    /\ loc' = [loc EXCEPT ![w] = [l EXCEPT !.key = key, !.value = payload,
                                           !.get_failed = ~up, !.fresh = TRUE]]
    /\ pc' = [pc EXCEPT ![w] = "cache_set"]
    /\ last' = NoResponse

\* A response that ends the request of worker w.
Reply(w, response) ==
    /\ last' = response
    /\ pc' = [pc EXCEPT ![w] = "idle"]
    /\ loc' = [loc EXCEPT ![w] = LocIdle]

\* render_template on a cached value: a value of the handler's shape renders;
\* what the template does with any other value is not fixed by the handler.
Rendered(value, shape) == IF value.shape = shape THEN {200} ELSE {200, 500}

\* "user, posts, stats = cached": the unpacking raises on a value that is not
\* a sequence of three, and the request ends in a 500.
Unpacked(value) == IF value.shape = "triple" THEN 200 ELSE 500

\* get_index: cache_get, and on a miss the query and make_posts; any value
\* other than None counts as a hit.
GetIndex(w, up) ==
    /\ Begin(w)
    /\ LET l == Request("get_index")
           got == cache_get(KeyTop, up)
       IN  IF got.hit
           THEN \E status \in Rendered(got.value, "page") :
                    Reply(w, [PageResponse(w, l, got.value, TRUE, ~up) EXCEPT
                                 !.status = status])
           ELSE \E page \in IndexPages : Computed(w, l, KeyTop, PagePayload(page), up)
    /\ UNCHANGED <<storeVars, files, mc, stale, agg, imgVars, invalidated>>

\* get_posts: cache_get, and on a miss the query and make_posts.
GetPosts(w, cursor, up) ==
    /\ Begin(w)
    /\ LET l == [Request("get_posts") EXCEPT !.cursor = cursor]
           got == cache_get(KeyBefore(cursor), up)
       IN  IF got.hit
           THEN \E status \in Rendered(got.value, "page") :
                    Reply(w, [PageResponse(w, l, got.value, TRUE, ~up) EXCEPT
                                 !.status = status])
           ELSE \E out \in PostsOutcomes(cursor) :
                    IF out.ok
                    THEN Computed(w, l, KeyBefore(cursor), PagePayload(out.page), up)
                    ELSE Reply(w, [PlainResponse(w, "get_posts", 500) EXCEPT
                                      !.cursor = cursor])
    /\ UNCHANGED <<storeVars, files, mc, stale, agg, imgVars, invalidated>>

\* get_user_list: cache_get, and on a miss the user check, the query,
\* make_posts and the statistics; 404 when no live user has the name.
GetUserList(w, account_name, up) ==
    /\ Begin(w)
    /\ LET l == [Request("get_user_list") EXCEPT !.account_name = account_name]
           got == cache_get(KeyUser(account_name), up)
       IN  IF got.hit
           THEN Reply(w, [PageResponse(w, l, got.value, TRUE, ~up) EXCEPT
                             !.status = Unpacked(got.value)])
           ELSE IF LiveUsersNamed(account_name) = {}
           THEN Reply(w, [PlainResponse(w, "get_user_list", 404) EXCEPT
                             !.account_name = account_name, !.cache_failed = ~up])
           ELSE \E uid \in LiveUsersNamed(account_name) :
                    \E page \in UserPages(uid) :
                        Computed(w, l, KeyUser(account_name),
                                 Payload(page, UserView(uid), UserStats(uid)), up)
    /\ UNCHANGED <<storeVars, files, mc, stale, agg, imgVars, invalidated>>

\* The end of a read handler after a miss: cache_set, then render_template.
CacheSetAndRender(w, up) ==
    /\ pc[w] = "cache_set"
    /\ mc' = cache_set(loc[w].key, loc[w].value, up)
    /\ stale' = IF up THEN [v \in Workers |-> stale[v] \ {loc[w].key}] ELSE stale
    /\ Reply(w, PageResponse(w, loc[w], loc[w].value, FALSE, loc[w].get_failed /\ ~up))
    /\ UNCHANGED <<storeVars, files, reqs, agg, imgVars, invalidated>>

\* get_posts_id: the post with all its comments, or 404.
GetPostsId(w, id) ==
    /\ Begin(w)
    /\ \E rk \in CommentDescOrders, od \in CommentAscOrders :
          LET rows == SelectPosts([i \in DOMAIN posts |-> i],
                                  {i \in DOMAIN posts : posts[i].id = id})
              page == make_posts(rows, TRUE, rk, od)
              l == [Request("get_posts_id") EXCEPT !.post_id = id]
          IN  IF page = <<>>
              THEN Reply(w, PlainResponse(w, "get_posts_id", 404))
              ELSE Reply(w, PageResponse(w, l, PagePayload(<<page[1]>>), FALSE, FALSE))
    /\ UNCHANGED <<storeVars, files, mc, stale, agg, imgVars, invalidated>>

\* post_comment up to the INSERT: redirect to /login without a session user,
\* 422 on a wrong csrf_token, else the comment row is inserted.
PostComment(w, me, csrf_ok, post_id) ==
    /\ Begin(w)
    /\ IF me \notin DOMAIN users
       THEN /\ Reply(w, PlainResponse(w, "post_comment", 302))
            /\ UNCHANGED <<comments, now, stale>>
       ELSE IF ~csrf_ok
       THEN /\ Reply(w, PlainResponse(w, "post_comment", 422))
            /\ UNCHANGED <<comments, now, stale>>
       ELSE /\ Len(comments) < MaxFeedComments
            /\ \E t \in ClockReadings :
                  /\ now' = t
                  /\ comments' = Append(comments,
                                        CommentRow(Len(comments) + 1, post_id, me, t))
            /\ stale' = [stale EXCEPT ![w] = DOMAIN mc]
            /\ loc' = [Outdated(loc) EXCEPT ![w] =
                          [Request("post_comment") EXCEPT
                              !.me = me, !.post_id = post_id,
                              !.comment_id = Len(comments) + 1,
                              !.held = DOMAIN mc]]
            /\ pc' = [pc EXCEPT ![w] = "comment_delete_top"]
            /\ last' = NoResponse
    /\ UNCHANGED <<users, posts, post_seq, files, mc, agg, imgVars, invalidated>>

\* memcache().delete(key) in post_comment: the key is deleted, or the
\* exception of an unreachable memcached ends the request with a 500.
MemcacheDelete(w, key, next, up) ==
    IF up
    THEN /\ mc' = McDelete(key)
         /\ stale' = [v \in Workers |-> stale[v] \cap DOMAIN mc']
         /\ pc' = [pc EXCEPT ![w] = next]
         /\ last' = NoResponse
         /\ UNCHANGED loc
    ELSE /\ Reply(w, [PlainResponse(w, "post_comment", 500) EXCEPT !.cache_error = TRUE])
         /\ stale' = [stale EXCEPT ![w] = {}]
         /\ UNCHANGED mc

\* post_comment: memcache().delete("tl:top")
PostCommentDeleteTop(w, up) ==
    /\ pc[w] = "comment_delete_top"
    /\ MemcacheDelete(w, KeyTop, "comment_delete_post", up)
    /\ UNCHANGED <<storeVars, files, reqs, agg, imgVars, invalidated>>

\* post_comment: memcache().delete(f"post:{post_id}")
PostCommentDeletePost(w, up) ==
    /\ pc[w] = "comment_delete_post"
    /\ MemcacheDelete(w, KeyPost(loc[w].post_id), "comment_owner", up)
    /\ UNCHANGED <<storeVars, files, reqs, agg, imgVars, invalidated>>

\* The account names of the owner of post_id: SELECT account_name FROM users
\* WHERE id = (SELECT user_id FROM posts WHERE id = post_id).
OwnerNames(post_id) ==
    {users[u].account_name : u \in {v \in DOMAIN users :
        \E i \in DOMAIN posts : posts[i].id = post_id /\ posts[i].user_id = v}}

\* The redirect that ends post_comment.
CommentDone(w, owner, left) ==
    [PlainResponse(w, "post_comment", 302) EXCEPT
        !.post_id = loc[w].post_id, !.owner = owner, !.held = loc[w].held,
        !.stale_keys = left]

\* post_comment: the owner query; without an owner the request ends.
PostCommentOwner(w) ==
    /\ pc[w] = "comment_owner"
    /\ IF OwnerNames(loc[w].post_id) = {}
       THEN /\ Reply(w, CommentDone(w, "", stale[w]))
            /\ stale' = [stale EXCEPT ![w] = {}]
            /\ invalidated' = invalidated \cup {loc[w].comment_id}
       ELSE /\ \E name \in OwnerNames(loc[w].post_id) :
                  loc' = [loc EXCEPT ![w].owner = name]
            /\ pc' = [pc EXCEPT ![w] = "comment_delete_user"]
            /\ last' = NoResponse
            /\ UNCHANGED <<stale, invalidated>>
    /\ UNCHANGED <<storeVars, files, mc, reqs, agg, imgVars>>

\* post_comment: memcache().delete(f"user:{owner}:page0"), then the redirect.
PostCommentDeleteUser(w, up) ==
    /\ pc[w] = "comment_delete_user"
    /\ IF up
       THEN /\ mc' = McDelete(KeyUser(loc[w].owner))
            /\ stale' = [v \in Workers |->
                            IF v = w THEN {} ELSE stale[v] \cap DOMAIN mc']
            /\ Reply(w, CommentDone(w, loc[w].owner, stale[w] \cap DOMAIN mc'))
            /\ invalidated' = invalidated \cup {loc[w].comment_id}
       ELSE /\ Reply(w, [PlainResponse(w, "post_comment", 500) EXCEPT !.cache_error = TRUE])
            /\ stale' = [stale EXCEPT ![w] = {}]
            /\ UNCHANGED <<mc, invalidated>>
    /\ UNCHANGED <<storeVars, files, reqs, agg, imgVars>>

\* post_banned up to the loop: without a session user me["authority"] raises
\* (500), 403 for a non-admin, 422 on a wrong csrf_token.
PostBanned(w, me, csrf_ok, uids) ==
    /\ Begin(w)
    /\ IF me \notin DOMAIN users
       THEN Reply(w, PlainResponse(w, "post_banned", 500))
       ELSE IF users[me].authority = 0
       THEN Reply(w, PlainResponse(w, "post_banned", 403))
       ELSE IF ~csrf_ok
       THEN Reply(w, PlainResponse(w, "post_banned", 422))
       ELSE /\ loc' = [loc EXCEPT ![w] = [Request("post_banned") EXCEPT !.uids = uids]]
            /\ pc' = [pc EXCEPT ![w] = "banned_update"]
            /\ last' = NoResponse
    /\ UNCHANGED <<storeVars, files, mc, stale, agg, imgVars, invalidated>>

\* post_banned: one UPDATE users SET del_flg = 1 of the loop, or the redirect.
PostBannedUpdate(w) ==
    /\ pc[w] = "banned_update"
    /\ IF loc[w].uids = <<>>
       THEN /\ Reply(w, PlainResponse(w, "post_banned", 302))
            /\ UNCHANGED users
       ELSE /\ users' = [u \in DOMAIN users |->
                           IF u = Head(loc[w].uids)
                           THEN [users[u] EXCEPT !.del_flg = TRUE] ELSE users[u]]
            /\ loc' = [Outdated(loc) EXCEPT ![w].uids = Tail(loc[w].uids)]
            /\ last' = NoResponse
            /\ UNCHANGED pc
    /\ UNCHANGED <<posts, comments, post_seq, now, files, mc, stale, reqs, agg, imgVars, invalidated>>

Mimes == {"image/jpeg", "image/png", "image/gif"}

\* post_index up to the INSERT: the redirects and the 422, else the row is
\* inserted with the placeholder "temp".
PostIndex(w, me, csrf_ok, mime) ==
    /\ Begin(w)
    /\ IF me \notin DOMAIN users
       THEN /\ Reply(w, PlainResponse(w, "post_index", 302))
            /\ UNCHANGED <<posts, post_seq, now>>
       ELSE IF ~csrf_ok
       THEN /\ Reply(w, PlainResponse(w, "post_index", 422))
            /\ UNCHANGED <<posts, post_seq, now>>
       ELSE IF mime \notin Mimes
       THEN /\ Reply(w, PlainResponse(w, "post_index", 302))
            /\ UNCHANGED <<posts, post_seq, now>>
       ELSE /\ post_seq < MaxFeedPosts
            /\ post_seq' = post_seq + 1
            /\ \E t \in ClockReadings :
                  /\ now' = t
                  /\ posts' = Append(posts,
                                     PostRow(post_seq + 1, me, t, mime, StrData("temp")))
            /\ loc' = [Outdated(loc) EXCEPT ![w] =
                          [Request("post_index") EXCEPT
                              !.me = me, !.pid = post_seq + 1, !.mime = mime,
                              !.upload = Original(post_seq + 1),
                              !.filename = generate_image_filename(post_seq + 1, mime)]]
            /\ pc' = [pc EXCEPT ![w] = "post_move"]
            /\ last' = NoResponse
    /\ UNCHANGED <<users, comments, files, mc, stale, agg, imgVars, invalidated>>

\* post_index: shutil.move of the upload to its final path; it may raise.
PostIndexMove(w, ok) ==
    /\ pc[w] = "post_move"
    /\ IF ok
       THEN /\ files' = FilesWith(loc[w].filename, WholeFile(Raw(loc[w].upload)))
            /\ pc' = [pc EXCEPT ![w] = "post_update"]
       ELSE /\ pc' = [pc EXCEPT ![w] = "post_failed"]
            /\ UNCHANGED files
    /\ last' = NoResponse
    /\ UNCHANGED <<storeVars, mc, loc, stale, reqs, agg, imgVars, invalidated>>

\* A post_index that deletes the key of the global timeline.
post_index_cache_invalidating == McDelete(KeyTop)

\* memcached after post_index: the handler makes no call to it.
post_index_cache == mc

\* post_index: UPDATE posts SET imgdata = filename, then the redirect to the
\* post; the UPDATE may raise.
PostIndexUpdate(w, ok) ==
    /\ pc[w] = "post_update"
    /\ IF ok
       THEN /\ posts' = [i \in DOMAIN posts |->
                           IF posts[i].id = loc[w].pid
                           THEN [posts[i] EXCEPT !.imgdata = StrData(loc[w].filename)]
                           ELSE posts[i]]
            /\ Reply(w, [PlainResponse(w, "post_index", 302) EXCEPT
                             !.post_id = loc[w].pid])
       ELSE /\ pc' = [pc EXCEPT ![w] = "post_failed"]
            /\ last' = NoResponse
            /\ UNCHANGED <<posts, loc>>
    /\ mc' = post_index_cache
    /\ UNCHANGED <<users, comments, post_seq, now, files, stale, reqs, agg, imgVars, invalidated>>

\* post_index, the except branch: DELETE the post row, redirect to /.
PostIndexFailed(w) ==
    /\ pc[w] = "post_failed"
    /\ posts' = SelectPosts([i \in DOMAIN posts |-> i],
                            {i \in DOMAIN posts : posts[i].id # loc[w].pid})
    /\ last' = PlainResponse(w, "post_index", 302)
    /\ pc' = [pc EXCEPT ![w] = "idle"]
    /\ loc' = [Outdated(loc) EXCEPT ![w] = LocIdle]
    /\ UNCHANGED <<users, comments, post_seq, now, files, mc, stale, reqs, agg, imgVars, invalidated>>

(***************************************************************************)
(* The environment of the handlers                                         *)
(***************************************************************************)
\* The TTL of an entry runs out.
Expire(key) ==
    /\ key \in DOMAIN mc
    /\ mc' = McDelete(key)
    /\ stale' = [v \in Workers |-> stale[v] \cap DOMAIN mc']
    /\ last' = NoResponse
    /\ UNCHANGED <<storeVars, files, pc, loc, reqs, agg, imgVars, invalidated>>

(***************************************************************************)
(* SpecFeed                                                                *)
(***************************************************************************)
SessionUsers == UserIds \cup {0}

Cursors == {NoCursor} \cup {TimeCursor(t) : t \in 1..MaxTime}

RequestedNames == {AccountName(2)}

BanLists == {<<2>>, <<1, 2>>}

UploadMimes == {"image/png", "text/plain"}

FeedStore ==
    /\ users = [u \in UserIds |-> UserRow(u, FALSE)]
    /\ posts = <<PostRow(1, 2, 0, "image/png", StrData(generate_image_filename(1, "image/png")))>>
    /\ files = [n \in {generate_image_filename(1, "image/png")} |->
                    WholeFile(Raw(Original(1)))]
    /\ post_seq = 1
    /\ comments = <<>>
    /\ now = 0
    /\ agg = AggIdle

InitFeed == InitIdle /\ FeedStore

NextFeed ==
    \/ \E w \in Workers, up \in BOOLEAN : GetIndex(w, up)
    \/ \E w \in Workers, cursor \in Cursors, up \in BOOLEAN : GetPosts(w, cursor, up)
    \/ \E w \in Workers, name \in RequestedNames, up \in BOOLEAN :
          GetUserList(w, name, up)
    \/ \E w \in Workers, up \in BOOLEAN : CacheSetAndRender(w, up)
    \/ \E w \in Workers, id \in 1..MaxFeedPosts : GetPostsId(w, id)
    \/ \E w \in Workers, me \in SessionUsers, csrf_ok \in BOOLEAN, id \in 1..MaxFeedPosts :
          PostComment(w, me, csrf_ok, id)
    \/ \E w \in Workers, up \in BOOLEAN : PostCommentDeleteTop(w, up)
    \/ \E w \in Workers, up \in BOOLEAN : PostCommentDeletePost(w, up)
    \/ \E w \in Workers : PostCommentOwner(w)
    \/ \E w \in Workers, up \in BOOLEAN : PostCommentDeleteUser(w, up)
    \/ \E w \in Workers, me \in SessionUsers, csrf_ok \in BOOLEAN, uids \in BanLists :
          PostBanned(w, me, csrf_ok, uids)
    \/ \E w \in Workers : PostBannedUpdate(w)
    \/ \E w \in Workers, me \in SessionUsers, csrf_ok \in BOOLEAN,
          mime \in UploadMimes : PostIndex(w, me, csrf_ok, mime)
    \/ \E w \in Workers, ok \in BOOLEAN : PostIndexMove(w, ok)
    \/ \E w \in Workers, ok \in BOOLEAN : PostIndexUpdate(w, ok)
    \/ \E w \in Workers : PostIndexFailed(w)
    \/ \E key \in DOMAIN mc : Expire(key)

SpecFeed == InitFeed /\ [][NextFeed]_vars

(***************************************************************************)
(* SpecForeign: the handlers of SpecFeed on a memcached in which another   *)
(* client has left values of its own under the keys of the feed            *)
(***************************************************************************)
ForeignKeys == {KeyTop, KeyUser(AccountName(2))}

InitForeign ==
    /\ InitWorkers
    /\ FeedStore
    /\ \E key \in ForeignKeys : mc = [k \in {key} |-> Malformed]

SpecForeign == InitForeign /\ [][NextFeed]_vars

(***************************************************************************)
(* Claims about the feed cache                                             *)
(***************************************************************************)
ReadHandlers == {"get_index", "get_posts", "get_user_list"}

\* C1: no request ends in an error because a cache operation failed.
C1_CacheFailureTolerated == ~last.cache_error

\* C2: a page sent by /, /posts, /@name or /posts/<id> holds no post whose
\* author has del_flg set when it is sent, whatever the cache holds; stated
\* for the pages served from the cache and for the computed pages during
\* whose request the store did not change.
C2_NoDeletedAuthorInPage ==
    (last.status = 200 /\ (last.hit \/ last.fresh)) =>
        DeletedAuthors(last.payload.posts) = {}

\* C3: a feed or profile request all of whose cache operations failed did
\* not answer from the cache, and answers with what the query and make_posts
\* give on the store as it is (a 404 when no live user has the name).
C3_DisabledCacheSameResult ==
    (last.handler \in ReadHandlers /\ last.cache_failed) =>
        /\ ~last.hit
        /\ (last.status = 404) => LiveUsersNamed(last.account_name) = {}
        /\ (last.status = 200 /\ last.fresh) =>
              CASE last.handler = "get_index" ->
                       \E page \in IndexPages : last.payload = PagePayload(page)
                [] last.handler = "get_posts" ->
                       \E page \in PostsPages(last.cursor) : last.payload = PagePayload(page)
                [] OTHER ->
                       \E uid \in LiveUsersNamed(last.account_name) :
                           \E page \in UserPages(uid) :
                               last.payload = Payload(page, UserView(uid), UserStats(uid))

\* C3 witness: a profile was computed with every cache operation failing
\* while memcached held another page under its key.
C3_Witness ==
    /\ last.handler = "get_user_list"
    /\ last.status = 200
    /\ last.cache_failed
    /\ last.fresh
    /\ last.payload.posts # <<>>
    /\ KeyUser(last.account_name) \in DOMAIN mc
    /\ mc[KeyUser(last.account_name)] # last.payload

(***************************************************************************)
(* SpecPages: / and /posts without cursor on stores longer than the LIMIT   *)
(* of the query of get_posts                                               *)
(***************************************************************************)
\* The numbers of posts in the store: around empty and around the LIMIT.
PageSizes == (0..1) \cup {n \in 0..MaxPagePosts : n >= MaxPagePosts - 2}

\* How many of the newest posts user 2 owns: none, and around the number of
\* rows the LIMIT 30 of get_posts leaves beyond a page.
NewestByOther == {0, 30 - POSTS_PER_PAGE, 30 - POSTS_PER_PAGE + 1}

InitPages ==
    /\ InitIdle
    /\ users \in {[u \in UserIds |-> UserRow(u, u = 2 /\ f)] : f \in BOOLEAN}
    /\ \E n \in PageSizes, k \in NewestByOther :
          /\ posts = [i \in 1..n |->
                        PostRow(i, IF i > n - k THEN 2 ELSE 1, i, "image/png",
                                StrData(generate_image_filename(i, "image/png")))]
          /\ post_seq = n
          /\ now = n
    /\ files = <<>>
    /\ comments = <<>>
    /\ agg = AggIdle

NextPages ==
    \/ \E w \in Workers, up \in BOOLEAN : GetIndex(w, up)
    \/ \E w \in Workers, up \in BOOLEAN : GetPosts(w, NoCursor, up)
    \/ \E w \in Workers, up \in BOOLEAN : CacheSetAndRender(w, up)

SpecPages == InitPages /\ [][NextPages]_vars

\* C16: on a store that does not change, the page get_posts computes and
\* stores under tl:before:top for a request without cursor has the content
\* of the page get_index computes and stores under tl:top.
C16_TopPagesAlike ==
    (KeyTop \in DOMAIN mc /\ KeyBefore(NoCursor) \in DOMAIN mc) =>
        mc[KeyTop].posts = mc[KeyBefore(NoCursor)].posts

\* C13: a profile request that finds a value under its key that is not a
\* (user, posts, stats) tuple takes it for a miss: it does not fail and does
\* not answer from that value.
C13_MalformedIsMiss ==
    last.handler = "get_user_list" =>
        /\ last.status \in {200, 404}
        /\ last.payload.shape # "other"

\* A step of post_index: its first one, or one from a later position.
PostIndexStep ==
    \E w \in Workers :
        \/ pc[w] = "idle" /\ pc'[w] = "post_move"
        \/ pc[w] \in {"post_move", "post_update", "post_failed"} /\ pc'[w] # pc[w]
        \/ pc[w] = "idle" /\ last'.handler = "post_index" /\ last'.worker = w

\* C19: no step of a new-post submission, successful or failed, changes an
\* entry of the cache.
C19_PostIndexKeepsCache == [][PostIndexStep => mc' = mc]_vars

\* C19 witness: a submission has ended with its post in the store while
\* tl:top holds a page without that post.
C19_Witness ==
    /\ last.handler = "post_index"
    /\ last.post_id # 0
    /\ \E i \in DOMAIN posts : posts[i].id = last.post_id /\ posts[i].imgdata # StrData("temp")
    /\ KeyTop \in DOMAIN mc
    /\ last.post_id \notin PostIdsOf(mc[KeyTop].posts)

CommentDeleteSteps ==
    {"comment_delete_top", "comment_delete_post", "comment_owner", "comment_delete_user"}

\* C4: post_comment deletes its keys only after its INSERT, and when it
\* completes none of tl:top, post:<post_id> and the owner's user:<name>:page0
\* holds a value written before that INSERT.
C4_InvalidateAfterInsert ==
    /\ \A w \in Workers :
          pc[w] \in CommentDeleteSteps => loc[w].comment_id \in DOMAIN comments
    /\ (last.handler = "post_comment" /\ last.status = 302 /\ last.post_id # 0) =>
          /\ KeyTop \notin last.stale_keys
          /\ KeyPost(last.post_id) \notin last.stale_keys
          /\ \A name \in OwnerNames(last.post_id) : KeyUser(name) \notin last.stale_keys

\* C4 witness: a comment submission completed that found tl:top and the
\* owner's profile page in memcached at its INSERT.
C4_Witness ==
    /\ last.handler = "post_comment"
    /\ last.status = 302
    /\ last.owner # ""
    /\ KeyTop \in last.held
    /\ KeyUser(last.owner) \in last.held

\* The number of comments a COUNT on the commented post gives from the INSERT
\* of comment c on: the comments of that post up to c.
CountIncluding(c) ==
    Cardinality({d \in 1..c : comments[d].post_id = comments[c].post_id})

\* C22: a / request answered from tl:top, which starts and ends in one step,
\* after a comment submission ended in its redirect (all its deletes done on a
\* reachable memcached) returns for the commented post a comment_count that
\* includes that comment.
C22_CountAfterInvalidation ==
    (last.handler = "get_index" /\ last.hit /\ last.status = 200) =>
        \A c \in invalidated :
            \A j \in DOMAIN last.payload.posts :
                last.payload.posts[j].id = comments[c].post_id =>
                    last.payload.posts[j].comment_count >= CountIncluding(c)

(***************************************************************************)
(* SpecCursor: /posts with every kind of max_created_at, on a store that   *)
(* no request changes                                                      *)
(***************************************************************************)
\* No max_created_at, an empty one, the text "top", and timestamps.
PageCursors ==
    {NoCursor, TextCursor(""), TextCursor("top")} \cup {TimeCursor(t) : t \in 1..MaxTime}

NextCursor ==
    \/ \E w \in Workers, cursor \in PageCursors, up \in BOOLEAN : GetPosts(w, cursor, up)
    \/ \E w \in Workers, up \in BOOLEAN : CacheSetAndRender(w, up)
    \/ \E key \in {KeyBefore(c) : c \in PageCursors} : Expire(key)

SpecCursor == InitFeed /\ [][NextCursor]_vars

\* C23: a /posts request about to store its page under a key executed the
\* statement every request with that key executes, and the value under a key
\* tl:before:<k> is a page that each request with that key computes from the
\* store.
C23_KeyDeterminesQuery ==
    /\ \A w \in Workers :
          (pc[w] = "cache_set" /\ loc[w].handler = "get_posts") =>
              \A c \in PageCursors :
                  KeyBefore(c) = loc[w].key =>
                      get_posts_query(c) = get_posts_query(loc[w].cursor)
    /\ \A c \in PageCursors :
          KeyBefore(c) \in DOMAIN mc => mc[KeyBefore(c)].posts \in PostsPages(c)

(***************************************************************************)
(* Images: get_image with its migration on demand, and migrate_images.py   *)
(***************************************************************************)
\* The length under which a str imgdata is a file name (get_image and the
\* skip test of the script), and the LENGTH above which the script selects.
FILENAME_LEN == 100
SELECT_LEN == 100

\* isinstance(imgdata, str) and len(imgdata) < 100
IsFilename(imgdata) == imgdata.isStr /\ imgdata.len < FILENAME_LEN

\* The MIME type the extension of a request stands for.
ExtMime(ext) == IF ext = "jpg" THEN "image/jpeg" ELSE "image/" \o ext

\* A test that lets every extension pass.
ExtMatchesAny(ext, mime) == TRUE

\* The test of the requested extension against the stored MIME type.
ExtMatches(ext, mime) ==
    \/ ext = "jpg" /\ mime = "image/jpeg"
    \/ ext = "png" /\ mime = "image/png"
    \/ ext = "gif" /\ mime = "image/gif"

\* What f.write receives: a str is encoded as latin1, bytes go as they are.
FileBytes(imgdata) ==
    [text |-> imgdata.data, enc |-> IF imgdata.isStr THEN "latin1" ELSE "raw"]

\* The body of flask.Response(imgdata): a str is encoded as utf-8.
InlineBody(imgdata) ==
    File([text |-> imgdata.data, enc |-> IF imgdata.isStr THEN "utf8" ELSE "raw"], "all")

\* The file after `amount` of bytes went through a descriptor opened on it:
\* writers of one file write the same bytes at the same offsets.
WriteOver(cur, bytes, amount) ==
    File(bytes, IF cur.written = "all" \/ amount = "all" THEN "all"
                ELSE IF cur.written = "part" \/ amount = "part" THEN "part"
                ELSE "none")

\* An UPDATE without its WHERE.
UpdateImgdataOfAll(post_id, filename) ==
    [i \in DOMAIN posts |-> [posts[i] EXCEPT !.imgdata = StrData(filename)]]

\* UPDATE posts SET imgdata = filename WHERE id = post_id
UpdateImgdata(post_id, filename) ==
    [i \in DOMAIN posts |->
        IF posts[i].id = post_id THEN [posts[i] EXCEPT !.imgdata = StrData(filename)]
        ELSE posts[i]]

ImageResponse(w, l, status, body, branch, failed_at) ==
    [NoResponse EXCEPT !.handler = "get_image", !.worker = w, !.status = status,
                       !.id = l.id, !.ext = l.ext, !.body = body, !.branch = branch,
                       !.failed_at = failed_at, !.imgdata = l.imgdata,
                       !.file_before = l.file_before, !.updated = l.updated,
                       !.after_migration = l.after_migration]

\* The body the first request that migrated a post has sent.
FirstWith(l, body) ==
    IF l.updated /\ l.id \notin DOMAIN first
    THEN [p \in DOMAIN first \cup {l.id} |-> IF p = l.id THEN body ELSE first[p]]
    ELSE first

\* A SELECT that falls back on the rows of the table when the id has none.
SelectImageRowOrAny(id) ==
    IF \E i \in DOMAIN posts : posts[i].id = id
    THEN {i \in DOMAIN posts : posts[i].id = id}
    ELSE DOMAIN posts

\* SELECT mime, imgdata FROM posts WHERE id = %s: the indices of the rows.
SelectImageRow(id) == {i \in DOMAIN posts : posts[i].id = id}

\* get_image up to the dispatch on imgdata: the empty answer for id 0, the
\* SELECT of the row, the 404 for no row and for another extension.
GetImage(w, id, ext) ==
    /\ Begin(w)
    /\ LET rows == SelectImageRow(id)
           l == [Request("get_image") EXCEPT !.id = id, !.ext = ext]
       IN IF id = 0
          THEN Reply(w, ImageResponse(w, l, 200, NoFile, "", ""))
          ELSE IF rows = {}
          THEN Reply(w, ImageResponse(w, l, 404, NoFile, "", ""))
          ELSE LET post == posts[CHOOSE i \in rows : TRUE]
                   ref == IsFilename(post.imgdata)
                   filename == IF ref THEN post.imgdata.data
                               ELSE generate_image_filename(id, post.mime)
               IN IF ~ExtMatches(ext, post.mime)
                  THEN Reply(w, ImageResponse(w, l, 404, NoFile, "", ""))
                  ELSE /\ loc' = [loc EXCEPT ![w] =
                                    [l EXCEPT !.mime = post.mime,
                                              !.imgdata = post.imgdata,
                                              !.filename = filename,
                                              !.file_before = FileAt(filename),
                                              !.after_migration = id \in DOMAIN first]]
                       /\ pc' = [pc EXCEPT ![w] = IF ref THEN "image_send_ref"
                                                  ELSE "image_open"]
                       /\ last' = NoResponse
    /\ UNCHANGED <<storeVars, files, mc, stale, agg, imgVars, invalidated>>

\* get_image, file name branch: the exists test and send_file; a raise of
\* send_file turns into 404.
GetImageSendRef(w, ok) ==
    /\ pc[w] = "image_send_ref"
    /\ IF loc[w].filename \notin DOMAIN files
       THEN /\ Reply(w, ImageResponse(w, loc[w], 404, NoFile, "ref", ""))
            /\ UNCHANGED io_failed
       ELSE IF ~ok
       THEN /\ Reply(w, ImageResponse(w, loc[w], 404, NoFile, "ref", "send"))
            /\ io_failed' = TRUE
       ELSE /\ Reply(w, ImageResponse(w, loc[w], 200, files[loc[w].filename], "ref", ""))
            /\ UNCHANGED io_failed
    /\ UNCHANGED <<storeVars, files, mc, stale, reqs, agg, mig, first, invalidated>>

\* flask.Response(imgdata) of the except branch.
fallback_body(imgdata) == InlineBody(imgdata)

\* get_image, the except branch, entered from the step named by failed_at.
Fallback(w, failed_at) ==
    LET body == fallback_body(loc[w].imgdata)
    IN /\ Reply(w, ImageResponse(w, loc[w], 200, body, "inline", failed_at))
       /\ first' = FirstWith(loc[w], body)
       /\ io_failed' = TRUE

\* get_image, inline branch: open(image_path, 'wb') creates or truncates.
GetImageOpen(w, ok) ==
    /\ pc[w] = "image_open"
    /\ IF ok
       THEN /\ files' = FilesWith(loc[w].filename,
                                  File(FileBytes(loc[w].imgdata), "none"))
            /\ pc' = [pc EXCEPT ![w] = "image_write"]
            /\ last' = NoResponse
            /\ UNCHANGED <<loc, first, io_failed>>
       ELSE /\ Fallback(w, "open")
            /\ UNCHANGED files
    /\ UNCHANGED <<storeVars, mc, stale, reqs, agg, mig, invalidated>>

\* get_image, inline branch: the encode, f.write and the close; a raise
\* leaves what was written so far.
GetImageWrite(w, ok, amount) ==
    /\ pc[w] = "image_write"
    /\ files' = FilesWith(loc[w].filename,
                          WriteOver(FileAt(loc[w].filename), FileBytes(loc[w].imgdata),
                                    IF ok THEN "all" ELSE amount))
    /\ IF ok
       THEN /\ pc' = [pc EXCEPT ![w] = "image_update"]
            /\ last' = NoResponse
            /\ UNCHANGED <<loc, first, io_failed>>
       ELSE Fallback(w, "write")
    /\ UNCHANGED <<storeVars, mc, stale, reqs, agg, mig, invalidated>>

\* get_image, inline branch: the UPDATE of imgdata to the file name.
GetImageUpdate(w, ok) ==
    /\ pc[w] = "image_update"
    /\ IF ok
       THEN /\ posts' = UpdateImgdata(loc[w].id, loc[w].filename)
            /\ loc' = [Outdated(loc) EXCEPT ![w] = [loc[w] EXCEPT !.updated = TRUE]]
            /\ pc' = [pc EXCEPT ![w] = "image_send_new"]
            /\ last' = NoResponse
            /\ UNCHANGED <<first, io_failed>>
       ELSE /\ Fallback(w, "update")
            /\ UNCHANGED posts
    /\ UNCHANGED <<users, comments, post_seq, now, files, mc, stale, reqs, agg, mig, invalidated>>

\* get_image, inline branch: send_file of the file just written.
GetImageSendNew(w, ok) ==
    /\ pc[w] = "image_send_new"
    /\ IF ok
       THEN LET body == FileAt(loc[w].filename)
            IN /\ Reply(w, ImageResponse(w, loc[w], 200, body, "inline", ""))
               /\ first' = FirstWith(loc[w], body)
               /\ UNCHANGED io_failed
       ELSE Fallback(w, "send")
    /\ UNCHANGED <<storeVars, files, mc, stale, reqs, agg, mig, invalidated>>

\* migrate_images.py: the SELECT of the rows with LENGTH(imgdata) > 100; the
\* script works on this result from then on.
MigrateSelect ==
    /\ mig.pc = "idle"
    /\ mig' = [mig EXCEPT !.pc = "loop",
                          !.todo = SelectPosts([i \in DOMAIN posts |-> i],
                                       {i \in DOMAIN posts :
                                           posts[i].imgdata.len > SELECT_LEN})]
    /\ last' = NoResponse
    /\ UNCHANGED <<storeVars, files, mc, pc, loc, stale, reqs, agg, io_failed, first, invalidated>>

\* migrate_images.py: the head of the loop, with the skip of a row that
\* holds a file name, and the end of the script.
MigrateLoop ==
    /\ mig.pc = "loop"
    /\ IF mig.todo = <<>>
       THEN mig' = [mig EXCEPT !.pc = "done"]
       ELSE LET post == Head(mig.todo)
            IN IF IsFilename(post.imgdata)
               THEN mig' = [mig EXCEPT !.todo = Tail(mig.todo)]
               ELSE mig' = [mig EXCEPT
                               !.pc = "open", !.todo = Tail(mig.todo),
                               !.post_id = post.id, !.mime = post.mime,
                               !.imgdata = post.imgdata,
                               !.filename = generate_image_filename(post.id, post.mime)]
    /\ last' = NoResponse
    /\ UNCHANGED <<storeVars, files, mc, pc, loc, stale, reqs, agg, io_failed, first, invalidated>>

\* migrate_images.py, the except branch: the error is counted.
MigrateError == [mig EXCEPT !.pc = "loop", !.errors = mig.errors + 1]

\* migrate_images.py: open(image_path, 'wb').
MigrateOpen(ok) ==
    /\ mig.pc = "open"
    /\ IF ok
       THEN /\ files' = FilesWith(mig.filename, File(FileBytes(mig.imgdata), "none"))
            /\ mig' = [mig EXCEPT !.pc = "write"]
            /\ UNCHANGED io_failed
       ELSE /\ mig' = MigrateError
            /\ io_failed' = TRUE
            /\ UNCHANGED files
    /\ last' = NoResponse
    /\ UNCHANGED <<storeVars, mc, pc, loc, stale, reqs, agg, first, invalidated>>

\* migrate_images.py: the encode, f.write and the close.
MigrateWrite(ok, amount) ==
    /\ mig.pc = "write"
    /\ files' = FilesWith(mig.filename,
                          WriteOver(FileAt(mig.filename), FileBytes(mig.imgdata),
                                    IF ok THEN "all" ELSE amount))
    /\ IF ok
       THEN /\ mig' = [mig EXCEPT !.pc = "update"]
            /\ UNCHANGED io_failed
       ELSE /\ mig' = MigrateError
            /\ io_failed' = TRUE
    /\ last' = NoResponse
    /\ UNCHANGED <<storeVars, mc, pc, loc, stale, reqs, agg, first, invalidated>>

\* migrate_images.py: the UPDATE of imgdata, and the count of the migrated.
MigrateUpdate(ok) ==
    /\ mig.pc = "update"
    /\ IF ok
       THEN /\ posts' = UpdateImgdata(mig.post_id, mig.filename)
            /\ mig' = [mig EXCEPT !.pc = "loop", !.migrated = mig.migrated + 1]
            /\ loc' = Outdated(loc)
            /\ UNCHANGED io_failed
       ELSE /\ mig' = MigrateError
            /\ io_failed' = TRUE
            /\ UNCHANGED <<posts, loc>>
    /\ last' = NoResponse
    /\ UNCHANGED <<users, comments, post_seq, now, files, mc, pc, stale, reqs, agg, first, invalidated>>

(***************************************************************************)
(* SpecImg: image requests of the workers beside one run of the script     *)
(***************************************************************************)
ImgMimes == {"image/png", "image/jpeg"}
InlineLens == {FILENAME_LEN, FILENAME_LEN + 1}
Exts == {"png", "jpg", "gif"}
Amounts == {"none", "part"}

\* The imgdata a post can start with: the image itself, as bytes or as str,
\* or the name of its file.
ImgKinds ==
    [mime : ImgMimes, ref : {TRUE}, isStr : {TRUE}, len : {0}]
    \cup [mime : ImgMimes, ref : {FALSE}, isStr : BOOLEAN, len : InlineLens]

\* The posts after the first start migrated: a png with its file.
MigratedKind == [mime |-> "image/png", ref |-> TRUE, isStr |-> TRUE, len |-> 0]

InitImgdata(i, k) ==
    IF k.ref THEN StrData(generate_image_filename(i, k.mime))
    ELSE [isStr |-> k.isStr, len |-> k.len, data |-> Original(i)]

InitImg ==
    /\ InitIdle
    /\ users = [u \in UserIds |-> UserRow(u, FALSE)]
    /\ \E k \in [1..MaxImgPosts -> ImgKinds] :
          /\ \A i \in 2..MaxImgPosts : k[i] = MigratedKind
          /\ posts = [i \in 1..MaxImgPosts |->
                        PostRow(i, 1, 0, k[i].mime, InitImgdata(i, k[i]))]
          /\ files = [n \in {generate_image_filename(i, k[i].mime) :
                                i \in {j \in 1..MaxImgPosts : k[j].ref}} |->
                        WholeFile(Raw(Original(
                            CHOOSE i \in 1..MaxImgPosts :
                                n = generate_image_filename(i, k[i].mime))))]
    /\ post_seq = MaxImgPosts
    /\ comments = <<>>
    /\ now = 0
    /\ agg = AggIdle

NextImg ==
    \/ \E w \in Workers, id \in 0..(MaxImgPosts + 1), ext \in Exts : GetImage(w, id, ext)
    \/ \E w \in Workers, ok \in BOOLEAN : GetImageSendRef(w, ok)
    \/ \E w \in Workers, ok \in BOOLEAN : GetImageOpen(w, ok)
    \/ \E w \in Workers, ok \in BOOLEAN, amount \in Amounts : GetImageWrite(w, ok, amount)
    \/ \E w \in Workers, ok \in BOOLEAN : GetImageUpdate(w, ok)
    \/ \E w \in Workers, ok \in BOOLEAN : GetImageSendNew(w, ok)
    \/ MigrateSelect
    \/ MigrateLoop
    \/ \E ok \in BOOLEAN : MigrateOpen(ok)
    \/ \E ok \in BOOLEAN, amount \in Amounts : MigrateWrite(ok, amount)
    \/ \E ok \in BOOLEAN : MigrateUpdate(ok)

SpecImg == InitImg /\ [][NextImg]_vars

(***************************************************************************)
(* Claims about the images                                                 *)
(***************************************************************************)
ImageDone == last.handler = "get_image" /\ last.status = 200 /\ last.id # 0

AllFinished == mig.pc \in {"idle", "done"} /\ \A w \in Workers : pc[w] = "idle"

\* C5: with no I/O failure, under every interleaving of image requests and
\* the script, each successful image response carries all the original
\* bytes of the post, and once all of them have finished the file of every
\* migrated post holds those bytes and a post a request has migrated has
\* the file name as its imgdata.
C5_RaceIsBenign ==
    ~io_failed =>
        /\ ImageDone => (last.body.written = "all" /\ last.body.text = Original(last.id))
        /\ AllFinished =>
              \A i \in DOMAIN posts :
                 /\ IsFilename(posts[i].imgdata) =>
                       /\ FileAt(posts[i].imgdata.data).written = "all"
                       /\ FileAt(posts[i].imgdata.data).text = Original(posts[i].id)
                 /\ posts[i].id \in DOMAIN first =>
                       posts[i].imgdata =
                           StrData(generate_image_filename(posts[i].id, posts[i].mime))

\* C6: an image request of an inline post whose write or UPDATE has failed
\* answers with the inline bytes it has fetched and has persisted nothing:
\* the file of the post and the imgdata of the row are as they were when
\* the request began.
C6_FailurePersistsNothing ==
    (last.handler = "get_image" /\ last.failed_at \in {"open", "write", "update"}) =>
        /\ last.body = InlineBody(last.imgdata)
        /\ FileAt(generate_image_filename(last.id, ExtMime(last.ext))) = last.file_before
        /\ \A i \in DOMAIN posts : posts[i].id = last.id => posts[i].imgdata = last.imgdata

\* C7: with no I/O failure, a request for a post that begins after a request
\* has migrated the post and answered takes the file name branch, makes no
\* UPDATE, and sends the bytes that first answer has sent.
C7_LaterRequestsIdentical ==
    (~io_failed /\ ImageDone /\ last.after_migration) =>
        /\ last.branch = "ref"
        /\ ~last.updated
        /\ last.body = first[last.id]

\* C12: after a run of the script that has counted no error, with no image
\* request beside it, no post is left that get_image takes for inline.
C12_PassLeavesNoInline ==
    (mig.pc = "done" /\ mig.errors = 0 /\ reqs = 0) =>
        \A i \in DOMAIN posts : IsFilename(posts[i].imgdata)

\* The rows of the post a response is about, and whether the extension asked
\* for is the one get_image_extension gives the stored MIME type.
RowsOf(id) == {i \in DOMAIN posts : posts[i].id = id}

Canonical(ext, id) ==
    \A i \in RowsOf(id) : get_image_extension(posts[i].mime) = "." \o ext

\* C14: an image request for an existing post with an extension that is not
\* the canonical one of the stored mime answers 404 with no image bytes, has
\* taken neither branch, and changes neither the Blob Store nor the posts.
C14_WrongExtensionNotFound ==
    [][(last'.handler = "get_image" /\ last'.id # 0 /\ RowsOf(last'.id) # {}
            /\ ~Canonical(last'.ext, last'.id)) =>
          /\ last'.status = 404
          /\ last'.body = NoFile
          /\ last'.branch = ""
          /\ ~last'.updated
          /\ files' = files
          /\ posts' = posts]_vars

\* C14 witness: a request with another extension for an inline post was
\* answered 404 and the post is still inline.
C14_Witness ==
    /\ last.handler = "get_image"
    /\ last.status = 404
    /\ \E i \in RowsOf(last.id) :
          /\ ~IsFilename(posts[i].imgdata)
          /\ posts[i].mime = "image/png"
          /\ last.ext = "jpg"

HandledBy(i) ==
    \/ \E w \in Workers :
          pc[w] = "image_update" /\ pc'[w] # pc[w] /\ loc[w].id = posts[i].id
    \/ mig.pc = "update" /\ mig'.pc # mig.pc /\ mig.post_id = posts[i].id

\* C18: every step of an image request and of the script leaves the users
\* and the comments as they are, adds and removes no post, and changes of a
\* post nothing but imgdata, and that of the post it handles only.
C18_OnlyImgdataOfHandledPost ==
    [][/\ users' = users
       /\ comments' = comments
       /\ DOMAIN posts' = DOMAIN posts
       /\ \A i \in DOMAIN posts :
             /\ [posts'[i] EXCEPT !.imgdata = posts[i].imgdata] = posts[i]
             /\ posts'[i].imgdata # posts[i].imgdata => HandledBy(i)]_vars

\* C18 witness: the first post has been migrated, by a request and by the
\* script, beside another post.
C18_Witness ==
    /\ Len(posts) > 1
    /\ mig.migrated > 0
    /\ posts[1].id \in DOMAIN first
    /\ IsFilename(posts[1].imgdata)

(***************************************************************************)
(* SpecUpload: new-post submissions beside image requests                  *)
(***************************************************************************)
\* No row of this store is inline, so get_image takes its file name branch.
NextUpload ==
    \/ \E w \in Workers, me \in SessionUsers, csrf_ok \in BOOLEAN,
          mime \in UploadMimes : PostIndex(w, me, csrf_ok, mime)
    \/ \E w \in Workers, ok \in BOOLEAN : PostIndexMove(w, ok)
    \/ \E w \in Workers, ok \in BOOLEAN : PostIndexUpdate(w, ok)
    \/ \E w \in Workers : PostIndexFailed(w)
    \/ \E w \in Workers, id \in 0..MaxFeedPosts, ext \in Exts : GetImage(w, id, ext)
    \/ \E w \in Workers, ok \in BOOLEAN : GetImageSendRef(w, ok)

SpecUpload == InitFeed /\ [][NextUpload]_vars

\* C21: in every state each post row whose imgdata get_image takes for a
\* file name names a file of the Blob Store, and an image request with the
\* canonical extension for an existing post, none of whose operations has
\* raised, is not answered 404.
C21_ReferencedFileExists ==
    /\ \A i \in DOMAIN posts :
          IsFilename(posts[i].imgdata) => posts[i].imgdata.data \in DOMAIN files
    /\ (last.handler = "get_image" /\ last.id # 0 /\ RowsOf(last.id) # {}
            /\ Canonical(last.ext, last.id) /\ last.failed_at = "") =>
          last.status # 404

====
